---------------------------- MODULE Spec2Model ----------------------------
(***************************************************************************)
(* Bad-wire pipeline of the CLAS12 drift chamber status tables.            *)
(*   GetTable.py : section CSVs -> BW_SL{n}.dat -> BW_total.dat ->          *)
(*                 BW_only_ccdb.dat -> BW_ccdb.dat (dense grid merge)       *)
(*   GetStatus.py: fit normalisation, sector and layer filters, CSV export  *)
(* Tables are sequences of records (a DataFrame's rows in index order).     *)
(* Real numbers are exact rationals: a fit set carries integer numerators   *)
(* and one positive denominator; comparisons are cross-multiplied.          *)
(***************************************************************************)
EXTENDS Integers, Sequences, FiniteSets, TLC

VARIABLES
    gpc,            \* GetTable grid stage: "total" -> "ccdb" -> "grid"
    df_total,       \* rows of BW_total.dat (Super Layer, Sector, Layer, Wire)
    df_ccdb_only,   \* rows of BW_only_ccdb.dat (sector, layer, component, status)
    df_grid,        \* rows of BW_empty.dat, the result of full_grid
    merged,         \* rows of BW_ccdb.dat, the result of make_grid_merge
    csv,            \* base_dir: csv[sl][sec] is the file SL{sl}/BWsec{sec}.csv
    bw_sl,          \* out_dir: bw_sl[sl] is the file BW_SL{sl}.dat
    tpc,            \* GetTable.main: "superlayers", "total", "failed"
    tsl,            \* loop variable sl of build_superlayer_outputs
    total_rows,     \* build_superlayer_outputs: total_rows
    running_sum,    \* build_superlayer_outputs: running_sum
    exit_code,      \* what main returns (-1 while it runs)
    spc,            \* GetStatus: "sector", "layer", "export", "done", "crashed"
    iSL,            \* superlayer index 0..5 of the pass followed
    isec,           \* sector index 0..5 of the pass followed
    xoff,           \* GetBinCenter(iBin) - iBin of the input histograms
    gsum,           \* g1..g4 fitted to the summed histogram (histSum.Fit)
    histSum,        \* aveWireSum[iSL]
    hist,           \* avgWire[sec][iSL]
    layers,         \* layersSLS[sec][iSL][0..5], indexed by lay + 1
    g_sec,          \* g1_sec..g4_sec[iSL][sec]
    histDiff,       \* histDiff[iSL][sec]
    g_lay,          \* g1_lay..g4_lay[iSL][sec][0..5], indexed by lay + 1
    histDiffSecLay, \* histDiffSecLay[iSL][sec][0..5], indexed by lay + 1
    BWsec,          \* the file results/SL{iSL+1}/BWsec{sec+1}.csv
    bw_total,       \* out_dir: the file BW_total.dat
    bw_only_ccdb,   \* out_dir: the file BW_only_ccdb.dat
    df_cols,        \* df_total.columns
    n_read,         \* build_total: the BW_SL files read so far
    err,            \* the exception that main has caught
    cpc,            \* Run_Chain: "step3", "step4", "step5", "done", "aborted"
    ci,             \* Run_Chain: position in the list that the step walks
    root_files,     \* Run_Chain: the number of *.root files found
    results_dirs,   \* Run_Chain: the */results/ directories found
    failing,        \* the commands that exit with a non-zero status
    executed,       \* the commands run by subprocess.run, in order
    printed         \* the commands printed after "Running:", in order

gridVars == <<gpc, df_total, df_ccdb_only, df_grid, merged>>

tableVars == <<csv, bw_sl, tpc, tsl, total_rows, running_sum, exit_code>>

statusVars == <<spc, iSL, isec, xoff, gsum, histSum, hist, layers, g_sec,
                histDiff, g_lay, histDiffSecLay, BWsec>>

outVars == <<bw_total, bw_only_ccdb, df_cols, n_read, err>>

chainVars == <<cpc, ci, root_files, results_dirs, failing, executed, printed>>

vars == <<gridVars, tableVars, statusVars, outVars, chainVars>>

\* Run_Chain.py not started
ChainIdle ==
    /\ cpc = "idle"
    /\ ci = 1
    /\ root_files = 0
    /\ results_dirs = <<>>
    /\ failing = {}
    /\ executed = <<>>
    /\ printed = <<>>

(***************************************************************************)
(* Program constants of GetTable.py                                        *)
(***************************************************************************)
N_SECTORS == 6
N_LAYERS == 36
N_COMPONENTS == 112
STATUS_BAD == 112

SECTIONS == 1..6
SUPERLAYERS == 1..6

\* Bound: the number of rows of the global bad-wire table fed to the grid stage.
MaxBadRows == 2

(***************************************************************************)
(* Sequence helpers (Python list arithmetic)                               *)
(***************************************************************************)
\* list * k
ListRepeat(list, k) ==
    [i \in 1..(Len(list) * k) |-> list[((i - 1) % Len(list)) + 1]]

\* list(range(a, b + 1))
RangeList(a, b) == [i \in 1..(b - a + 1) |-> a + i - 1]

\* sum((... for s in range(1, n + 1)), []) of the blocks [s] * blockLen
SectorColumn(n, blockLen) ==
    [i \in 1..(n * blockLen) |-> ((i - 1) \div blockLen) + 1]

\* the tables of a list one after the other (pd.concat, ignore_index=True)
RECURSIVE Concat(_)
Concat(dfs) == IF dfs = <<>> THEN <<>> ELSE Head(dfs) \o Concat(Tail(dfs))

SetMin(S) == CHOOSE m \in S : \A o \in S : m <= o

(***************************************************************************)
(* GetStatus.py: thresholds and fit subranges                              *)
(* A real number is a record [n, d] standing for n / d with d > 0.         *)
(***************************************************************************)
accuracy == 15
accuracyLayLow == 42
accuracyLayHigh == 150
accuracyLayLow_Mid == 38
maxWireFit == 114

\* Bound: the number of bins of every occupancy histogram (GetNbinsX()).
NBins == 112

RECURSIVE GCD(_, _)
GCD(a, b) == IF b = 0 THEN a ELSE GCD(b, a % b)

Abs(a) == IF a < 0 THEN -a ELSE a

\* n / d in lowest terms, d > 0
Frac(n, d) ==
    LET g == GCD(Abs(n), d)
    IN  [n |-> n \div g, d |-> d \div g]

Int2R(i) == [n |-> i, d |-> 1]
RMul(a, b) == [n |-> a.n * b.n, d |-> a.d * b.d]
RLt(a, b) == a.n * b.d < b.n * a.d
RIsZero(a) == a.n = 0

minBorder == Frac(100 - accuracy, 100)                  \* 1 - accuracy / 100
maxBorder == Frac(1000 + 12 * accuracy, 1000)           \* 1 + 1.2 * accuracy / 100
minBorderLay == Frac(100 - accuracyLayLow, 100)
minBorderLay_Mid == Frac(100 - accuracyLayLow_Mid, 100)
maxBorderLay == Frac(100 + accuracyLayHigh, 100)

\* indexed by iSL + 1
startG1fit == <<0, 0, 0, 0, 0, 5>>
endG1fit   == <<7, 7, 7, 9, 9, 14>>
startG2fit == <<6, 6, 6, 8, 9, 14>>
endG2fit   == <<32, 32, 28, 50, 20, 25>>
\* a third subrange that starts after a gap (superlayer 1)
startG3fit_Gap == <<34, 30, 26, 50, 20, 25>>
startG3fit == <<30, 30, 26, 50, 20, 25>>
endG3fit   == <<75, 75, 75, 90, 75, 80>>
startG4fit == <<75, 75, 75, 90, 75, 80>>

(***************************************************************************)
(* Histograms: a profile is the sequence of the contents of bins 1..NBins; *)
(* the underflow and overflow bins are empty.                              *)
(***************************************************************************)
\* hist.GetBinCenter(iBin) for an axis of unit bins centred on whole wires
GetBinCenter(xo, iBin) == iBin + xo

\* hist.Integral(binx1, binx2): the bins binx1..binx2 that the histogram has
RECURSIVE SumBins(_, _, _)
SumBins(h, a, b) ==
    IF a > b THEN 0
    ELSE IF a = b THEN h[a]
    ELSE LET mid == (a + b) \div 2
         IN  SumBins(h, a, mid) + SumBins(h, mid + 1, b)

Integral(h, binx1, binx2) ==
    SumBins(h, IF binx1 < 1 THEN 1 ELSE binx1,
               IF binx2 > Len(h) THEN Len(h) ELSE binx2)

\* the loop that forces a minimum content of 10 in the bins above 109
ForceMinContent(h) ==
    [iXbin \in 1..Len(h) |->
        IF iXbin >= 110 /\ h[iXbin] < 10 THEN 10 ELSE h[iXbin]]

(***************************************************************************)
(* Fit segment sets: the parameters of g1, g2, g3 (pol3) and g4            *)
(* ([0] + [1]*x + [2]/x) as integer numerators over one denominator den    *)
(***************************************************************************)
ScaleSeq(ps, k) == [i \in 1..Len(ps) |-> ps[i] * k]

\* for f in [g1, g2, g3, g4]: f.SetParameter(i, f.GetParameter(i) * norm)
ScaleFit(fs, norm) ==
    [g1 |-> ScaleSeq(fs.g1, norm.n), g2 |-> ScaleSeq(fs.g2, norm.n),
     g3 |-> ScaleSeq(fs.g3, norm.n), g4 |-> ScaleSeq(fs.g4, norm.n),
     den |-> fs.den * norm.d]

\* the guard written as "!= 0": a negative integral is divided by
Norm_NonZeroGuard(fine_integral, coarse_integral) ==
    IF coarse_integral # 0
    THEN Frac(IF coarse_integral < 0 THEN -fine_integral ELSE fine_integral,
              Abs(coarse_integral))
    ELSE Int2R(0)

\* norm = fine_integral / coarse_integral if coarse_integral > 0 else 0
Norm(fine_integral, coarse_integral) ==
    IF coarse_integral > 0 THEN Frac(fine_integral, coarse_integral)
    ELSE Int2R(0)

GetPol3_value(x, ps, den) ==
    [n |-> ps[1] + x * ps[2] + x * x * ps[3] + x * x * x * ps[4], d |-> den]

\* p0 + x * p1 + p2 / x, evaluated only for x above the third subrange (x > 0)
GetPol1hyperb_value(x, ps, den) ==
    [n |-> ps[1] * x + x * x * ps[2] + ps[3], d |-> den * x]

AllZero(fs) ==
    /\ \A i \in 1..4 : fs.g1[i] = 0 /\ fs.g2[i] = 0 /\ fs.g3[i] = 0
    /\ \A i \in 1..3 : fs.g4[i] = 0

(***************************************************************************)
(* Sector level: normalisation and filter                                  *)
(***************************************************************************)
SectorFitVal(fs, sl, x) ==
    IF x <= endG1fit[sl + 1] THEN GetPol3_value(x, fs.g1, fs.den)
    ELSE IF x <= endG2fit[sl + 1] THEN GetPol3_value(x, fs.g2, fs.den)
    ELSE IF x <= endG3fit[sl + 1] THEN GetPol3_value(x, fs.g3, fs.den)
    ELSE GetPol1hyperb_value(x, fs.g4, fs.den)

\* the band test written with <= on both sides
SectorKeep_Closed(x, y, fit_val) ==
    \/ /\ ~RLt(Int2R(y), RMul(minBorder, fit_val))
       /\ ~RLt(RMul(maxBorder, fit_val), Int2R(y))
       /\ 15 <= x /\ x < 107
    \/ x < 15
    \/ x >= 107

SectorKeep(x, y, fit_val) ==
    \/ /\ RLt(RMul(minBorder, fit_val), Int2R(y))
       /\ RLt(Int2R(y), RMul(maxBorder, fit_val))
       /\ 15 <= x /\ x < 107
    \/ x < 15
    \/ x >= 107

\* the bin loop of the sector level: hdiff starts empty (all 0)
SectorFilter(h, fs, sl, xo) ==
    [iBin \in 1..Len(h) |->
        LET x == GetBinCenter(xo, iBin)
            y == h[iBin]
        IN  IF SectorKeep(x, y, SectorFitVal(fs, sl, x)) THEN y ELSE 0]

(***************************************************************************)
(* Layer level: filter with spike suppression                              *)
(***************************************************************************)
LayerFitVal(fs, sl, x) ==
    IF x <= startG2fit[sl + 1] THEN GetPol3_value(x, fs.g1, fs.den)
    ELSE IF x <= startG3fit[sl + 1] THEN GetPol3_value(x, fs.g2, fs.den)
    ELSE IF x <= startG4fit[sl + 1] THEN GetPol3_value(x, fs.g3, fs.den)
    ELSE GetPol1hyperb_value(x, fs.g4, fs.den)

\* Python's (a or b) of a float a and a bool b: a unless a == 0, else b as 0 or 1
FloatOrBool(a, b) == IF ~RIsZero(a) THEN a ELSE Int2R(IF b THEN 1 ELSE 0)

\* the unconditional range of the low bins written as iBin < 14
LayerKeep_Wide(iBin, y, fit_val) ==
    LET yr == Int2R(y)
        twoMax == RMul(RMul(Int2R(2), maxBorderLay), fit_val)
    IN  \/ /\ iBin < 12
           /\ RLt(yr, RMul(maxBorderLay, fit_val))
           /\ RLt(RMul(minBorderLay, fit_val), yr)
        \/ iBin < 14
        \/ iBin > 105
        \/ /\ iBin >= 12 /\ iBin < 75
           /\ RLt(yr, twoMax)
           /\ RLt(RMul(minBorderLay_Mid, fit_val), yr)
        \/ /\ iBin >= 75 /\ iBin < 100
           /\ RLt(yr, FloatOrBool(twoMax, iBin > 98))
           /\ RLt(RMul(minBorderLay, fit_val), yr)
        \/ /\ iBin >= 100
           /\ RLt(yr, twoMax)
           /\ RLt(RMul(RMul(Frac(6, 10), minBorderLay), fit_val), yr)

LayerKeep(iBin, y, fit_val) ==
    LET yr == Int2R(y)
        twoMax == RMul(RMul(Int2R(2), maxBorderLay), fit_val)
    IN  \/ /\ iBin < 12
           /\ RLt(yr, RMul(maxBorderLay, fit_val))
           /\ RLt(RMul(minBorderLay, fit_val), yr)
        \/ iBin < 4
        \/ iBin > 105
        \/ /\ iBin >= 12 /\ iBin < 75
           /\ RLt(yr, twoMax)
           /\ RLt(RMul(minBorderLay_Mid, fit_val), yr)
        \/ /\ iBin >= 75 /\ iBin < 100
           /\ RLt(yr, FloatOrBool(twoMax, iBin > 98))
           /\ RLt(RMul(minBorderLay, fit_val), yr)
        \/ /\ iBin >= 100
           /\ RLt(yr, twoMax)
           /\ RLt(RMul(RMul(Frac(6, 10), minBorderLay), fit_val), yr)

\* abs(v - f) / f < c and abs(v - f) / f > c for f # 0 and c > 0
RelDevLt(v, f, c) ==
    IF f.n < 0 THEN TRUE
    ELSE Abs(v.n * f.d - f.n * v.d) * c.d < c.n * v.d * f.n

RelDevGt(v, f, c) ==
    IF f.n < 0 THEN FALSE
    ELSE Abs(v.n * f.d - f.n * v.d) * c.d > c.n * v.d * f.n

\* the condition of the spike suppression, in Python's evaluation order:
\* "yes", "no", or "error" when a division by zero is reached
SpikeCond(cur, pr1, pr2, fit_val, prev1, prev2) ==
    IF ~(cur > 1 /\ pr1 > 1 /\ pr2 > 1) THEN "no"
    ELSE IF RIsZero(fit_val) THEN "error"
    ELSE IF ~RelDevLt(Int2R(cur), fit_val, Frac(2, 10)) THEN "no"
    ELSE IF RIsZero(prev1) THEN "error"
    ELSE IF ~RelDevGt(Int2R(pr1), prev1, Frac(25, 100)) THEN "no"
    ELSE IF pr1 = 0 THEN "error"
    ELSE IF ~RelDevGt(Int2R(cur), Int2R(pr1), Frac(25, 100)) THEN "no"
    ELSE IF pr2 = 0 THEN "error"
    ELSE IF ~RelDevGt(Int2R(pr1), Int2R(pr2), Frac(25, 100)) THEN "no"
    ELSE IF RIsZero(prev2) THEN "error"
    ELSE IF ~RelDevLt(Int2R(pr2), prev2, Frac(2, 10)) THEN "no"
    ELSE "yes"

\* the suppression started one bin early
SpikeRange_Early(iBin) == 11 < iBin /\ iBin < 90

\* the bins at which the spike suppression runs
SpikeRange(iBin) == 12 < iBin /\ iBin < 90

\* the body with the suppression placed before the decision of the bin
LayerBin_SpikeFirst(h, fs, sl, xo, st, iBin) ==
    IF st.crashed THEN st
    ELSE
        LET x == GetBinCenter(xo, iBin)
            y == h[iBin]
            fit_val == LayerFitVal(fs, sl, x)
            spike == IF SpikeRange(iBin)
                     THEN SpikeCond(st.hist[iBin], st.hist[iBin - 1],
                                    st.hist[iBin - 2], fit_val, st.prev1,
                                    st.prev2)
                     ELSE "no"
            spiked == IF spike = "yes" THEN [st.hist EXCEPT ![iBin - 1] = 0]
                      ELSE st.hist
        IN  [hist    |-> IF LayerKeep(iBin, y, fit_val)
                         THEN [spiked EXCEPT ![iBin] = y] ELSE spiked,
             prev1   |-> fit_val,
             prev2   |-> st.prev1,
             crashed |-> spike = "error"]

\* one pass of the body of the bin loop of the layer level; st holds h_diff
\* (hist), prev1, prev2 and whether a ZeroDivisionError ended the loop
LayerBin(h, fs, sl, xo, st, iBin) ==
    IF st.crashed THEN st
    ELSE
        LET x == GetBinCenter(xo, iBin)
            y == h[iBin]
            fit_val == LayerFitVal(fs, sl, x)
            kept == IF LayerKeep(iBin, y, fit_val)
                    THEN [st.hist EXCEPT ![iBin] = y] ELSE st.hist
            spike == IF SpikeRange(iBin)
                     THEN SpikeCond(kept[iBin], kept[iBin - 1], kept[iBin - 2],
                                    fit_val, st.prev1, st.prev2)
                     ELSE "no"
        IN  [hist    |-> IF spike = "yes" THEN [kept EXCEPT ![iBin - 1] = 0]
                         ELSE kept,
             prev1   |-> fit_val,
             prev2   |-> st.prev1,
             crashed |-> spike = "error"]

\* for iBin in range(lo, hi + 1): the passes in order, ended by an error
\* (the range is halved only to keep the evaluation shallow)
RECURSIVE LayerLoop(_, _, _, _, _, _, _)
LayerLoop(h, fs, sl, xo, st, lo, hi) ==
    IF lo > hi THEN st
    ELSE IF lo = hi THEN LayerBin(h, fs, sl, xo, st, lo)
    ELSE LET mid == (lo + hi) \div 2
             half == LayerLoop(h, fs, sl, xo, st, lo, mid)
         IN  IF half.crashed THEN half
             ELSE LayerLoop(h, fs, sl, xo, half, mid + 1, hi)

EmptyHist(n) == [i \in 1..n |-> 0]

\* h_diff is created empty; prev1, prev2 = 0, 0
LayerFilter(h, fs, sl, xo) ==
    LayerLoop(h, fs, sl, xo,
              [hist |-> EmptyHist(Len(h)), prev1 |-> Int2R(0),
               prev2 |-> Int2R(0), crashed |-> FALSE],
              1, Len(h))

(***************************************************************************)
(* read_section_files, normalize_wire_column, build_superlayer_outputs     *)
(* A file is a record: kind "absent", "unreadable" (pd.read_csv raises) or *)
(* "table" with its rows; a section CSV row carries the wire as GetStatus  *)
(* wrote it, a bin centre, here in half wires (Wire2 = 2 * centre).        *)
(***************************************************************************)
Absent == [kind |-> "absent", rows |-> <<>>]
Unreadable == [kind |-> "unreadable", rows |-> <<>>]
TableFile(rows) == [kind |-> "table", rows |-> rows]
IsTable(f) == f.kind = "table"

\* the columns that GetStatus writes and to_ccdb_only_bw expects
\* ("SuperLayer" stands for the header "Super Layer")
ExpectedColumns == {"SuperLayer", "Sector", "Layer", "Wire"}

NoError == [type |-> "none", file |-> 0]

\* the output files of build_total and to_ccdb_only_bw before main runs
OutIdle ==
    /\ bw_total = Absent
    /\ bw_only_ccdb = Absent
    /\ df_cols = ExpectedColumns
    /\ n_read = 0
    /\ err = NoError

\* the DataFrames read_section_files returns for one superlayer directory
RECURSIVE ReadFrom(_, _)
ReadFrom(dir, sec) ==
    IF sec > 6 THEN <<>>
    ELSE IF dir[sec].kind = "absent" THEN ReadFrom(dir, sec + 1)      \* [WARN]
    ELSE IF dir[sec].kind = "unreadable" THEN ReadFrom(dir, sec + 1)  \* [ERROR]
    ELSE <<dir[sec].rows>> \o ReadFrom(dir, sec + 1)

read_section_files(dir) == ReadFrom(dir, 1)

RECURSIVE SumRows(_)
SumRows(dfs) == IF dfs = <<>> THEN 0 ELSE Len(Head(dfs)) + SumRows(Tail(dfs))

\* astype("Int64") of a float column: only integral values can be cast
WireCastable(rows) == \A i \in 1..Len(rows) : rows[i].Wire2 % 2 = 0

normalize_wire_column(rows) ==
    [i \in 1..Len(rows) |->
        [SuperLayer |-> rows[i].SuperLayer, Sector |-> rows[i].Sector,
         Layer |-> rows[i].Layer, Wire |-> rows[i].Wire2 \div 2]]

\* what GetStatus writes to SL{sl}/BWsec{sec}.csv in the runs considered
SectionRows(sl, sec) ==
    IF sec = 2
    THEN << [SuperLayer |-> sl, Sector |-> sec, Layer |-> 1, Wire2 |-> 18],
            [SuperLayer |-> sl, Sector |-> sec, Layer |-> 4, Wire2 |-> 200] >>
    ELSE << [SuperLayer |-> sl, Sector |-> sec, Layer |-> sec, Wire2 |-> 2 * (6 + sl)] >>

\* a file whose bin centres are not whole wires
FractionalRows(sl, sec) ==
    << [SuperLayer |-> sl, Sector |-> sec, Layer |-> 1, Wire2 |-> 19] >>

\* the layouts of one superlayer directory that are considered
LayoutNames == {"none", "one", "some", "all", "fractional"}

SectionLayout(sl, name) ==
    [sec \in SECTIONS |->
        CASE name = "none" -> Absent
          [] name = "one"  -> IF sec = 1 THEN TableFile(SectionRows(sl, sec)) ELSE Absent
          [] name = "some" -> IF sec \in {2, 5} THEN TableFile(SectionRows(sl, sec))
                              ELSE IF sec = 3 THEN Unreadable ELSE Absent
          [] name = "all"  -> TableFile(SectionRows(sl, sec))
          [] OTHER         -> IF sec = 4 THEN TableFile(FractionalRows(sl, sec))
                              ELSE Absent]

(***************************************************************************)
(* CSV export of one (superlayer, sector)                                  *)
(***************************************************************************)
\* the wire test written as 5 <= wire
LayerRecords_FromWire5(hd, sl, sc, lay, xo) ==
    LET bins == SelectSeq([k \in 1..(Len(hd) - 4) |-> k + 4],
                          LAMBDA iXbin :
                              /\ hd[iXbin] <= 1
                              /\ 5 <= GetBinCenter(xo, iXbin)
                              /\ GetBinCenter(xo, iXbin) < 106)
    IN  [k \in 1..Len(bins) |->
            [SuperLayer |-> sl + 1, Sector |-> sc + 1, Layer |-> lay + 1,
             Wire2 |-> 2 * GetBinCenter(xo, bins[k])]]

\* the records of one layer: for iXbin in range(5, h.GetNbinsX() + 1)
LayerRecords(hd, sl, sc, lay, xo) ==
    LET bins == SelectSeq([k \in 1..(Len(hd) - 4) |-> k + 4],
                          LAMBDA iXbin :
                              /\ hd[iXbin] <= 1
                              /\ 5 < GetBinCenter(xo, iXbin)
                              /\ GetBinCenter(xo, iXbin) < 106)
    IN  [k \in 1..Len(bins) |->
            [SuperLayer |-> sl + 1, Sector |-> sc + 1, Layer |-> lay + 1,
             Wire2 |-> 2 * GetBinCenter(xo, bins[k])]]

ExportRecords(hds, sl, sc, xo) ==
    Concat([l \in 1..6 |-> LayerRecords(hds[l], sl, sc, l - 1, xo)])

(***************************************************************************)
(* One pass of GetStatus.py for one superlayer iSL and one sector isec     *)
(***************************************************************************)
NoFit == [g1 |-> <<0, 0, 0, 0>>, g2 |-> <<0, 0, 0, 0>>, g3 |-> <<0, 0, 0, 0>>,
          g4 |-> <<0, 0, 0>>, den |-> 1]

StatusIdle ==
    /\ spc = "idle"
    /\ iSL = 0 /\ isec = 0 /\ xoff = 0
    /\ gsum = NoFit
    /\ histSum = <<>> /\ hist = <<>> /\ layers = <<>>
    /\ g_sec = NoFit /\ histDiff = <<>>
    /\ g_lay = <<>> /\ histDiffSecLay = <<>>
    /\ BWsec = Absent

\* lines 206-259 for the sector followed
SectorStage ==
    /\ spc = "sector"
    /\ LET fit_integral  == Integral(histSum, startG1fit[iSL + 1], maxWireFit)
           hist_integral == Integral(hist, startG1fit[iSL + 1], maxWireFit)
           norm == Norm(hist_integral, fit_integral)
       IN  /\ g_sec' = ScaleFit(gsum, norm)
           /\ histDiff' = SectorFilter(hist, g_sec', iSL, xoff)
    /\ spc' = "layer"
    /\ UNCHANGED <<iSL, isec, xoff, gsum, histSum, hist, layers, g_lay,
                   histDiffSecLay, BWsec>>
    /\ UNCHANGED <<gridVars, tableVars, outVars, chainVars>>

\* the fit of layer lay: the stored sector fit scaled by layInt / sectorInt
LayerFit(lay) ==
    LET sectorInt == Integral(hist, startG1fit[iSL + 1], maxWireFit)
        layInt    == Integral(layers[lay + 1], startG1fit[iSL + 1], maxWireFit)
    IN  ScaleFit(g_sec, Norm(layInt, sectorInt))

\* the layer stage with the filtered profile written into the histogram read
LayerStage_Alias ==
    /\ spc = "layer"
    /\ g_lay' = [l \in 1..6 |-> LayerFit(l - 1)]
    /\ LET res == [l \in 1..6 |-> LayerFilter(layers[l], g_lay'[l], iSL, xoff)]
       IN  /\ histDiffSecLay' = [l \in 1..6 |-> res[l].hist]
           /\ layers' = histDiffSecLay'
           /\ spc' = IF \E l \in 1..6 : res[l].crashed THEN "crashed"
                     ELSE "export"
    /\ UNCHANGED <<iSL, isec, xoff, gsum, histSum, hist, g_sec,
                   histDiff, BWsec>>
    /\ UNCHANGED <<gridVars, tableVars, outVars, chainVars>>

\* lines 338-410 for the six layers of the sector followed
LayerStage ==
    /\ spc = "layer"
    /\ g_lay' = [l \in 1..6 |-> LayerFit(l - 1)]
    /\ LET res == [l \in 1..6 |-> LayerFilter(layers[l], g_lay'[l], iSL, xoff)]
       IN  /\ histDiffSecLay' = [l \in 1..6 |-> res[l].hist]
           /\ spc' = IF \E l \in 1..6 : res[l].crashed THEN "crashed"
                     ELSE "export"
    /\ UNCHANGED <<iSL, isec, xoff, gsum, histSum, hist, layers, g_sec,
                   histDiff, BWsec>>
    /\ UNCHANGED <<gridVars, tableVars, outVars, chainVars>>

\* lines 438-460 for the sector followed
ExportSector ==
    /\ spc = "export"
    /\ LET records == ExportRecords(histDiffSecLay, iSL, isec, xoff)
       IN  BWsec' = IF records # <<>> THEN TableFile(records) ELSE BWsec
    /\ spc' = "done"
    /\ UNCHANGED <<iSL, isec, xoff, gsum, histSum, hist, layers, g_sec,
                   histDiff, g_lay, histDiffSecLay>>
    /\ UNCHANGED <<gridVars, tableVars, outVars, chainVars>>

(***************************************************************************)
(* to_ccdb_only_bw                                                         *)
(***************************************************************************)
KeyLess(a, b) ==
    \/ a.sector < b.sector
    \/ a.sector = b.sector /\ a.layer < b.layer
    \/ a.sector = b.sector /\ a.layer = b.layer /\ a.component < b.component

RECURSIVE InsertSorted(_, _)
InsertSorted(s, r) ==
    IF s = <<>> THEN <<r>>
    ELSE IF KeyLess(r, Head(s)) THEN <<r>> \o s
    ELSE <<Head(s)>> \o InsertSorted(Tail(s), r)

RECURSIVE SortValues(_)
SortValues(s) ==
    IF s = <<>> THEN <<>>
    ELSE InsertSorted(SortValues(SubSeq(s, 1, Len(s) - 1)), s[Len(s)])

\* the absolute layer computed with SuperLayer in place of SuperLayer - 1
CcdbRow_NoOffset(t) ==
    [sector    |-> t.Sector,
     layer     |-> t.Layer + t.SuperLayer * 6,
     component |-> t.Wire,
     status    |-> STATUS_BAD]

CcdbRow(t) ==
    [sector    |-> t.Sector,
     layer     |-> t.Layer + (t.SuperLayer - 1) * 6,
     component |-> t.Wire,
     status    |-> STATUS_BAD]

to_ccdb_only_bw(total) ==
    SortValues([i \in 1..Len(total) |-> CcdbRow(total[i])])

(***************************************************************************)
(* full_grid                                                               *)
(***************************************************************************)
full_grid(n_sec, n_lay, n_comp) ==
    LET sec  == SectorColumn(n_sec, n_lay * n_comp)
        lay  == ListRepeat(RangeList(1, n_lay), n_sec * n_comp)
        comp == ListRepeat(RangeList(1, n_comp), n_lay * n_sec)
    IN  [i \in 1..Len(sec) |->
            [sector |-> sec[i], layer |-> lay[i], component |-> comp[i],
             status0 |-> 0]]

(***************************************************************************)
(* make_grid_merge: left join of the grid with the bad-wire rows           *)
(***************************************************************************)
KeyOf(r) == <<r.sector, r.layer, r.component>>

\* the rows pd.merge(how='left') yields for one grid row, after fillna(0)
\* and status = status0 + status1; keys is the set of keys of bw
LeftJoinRow(g, bw, keys) ==
    IF KeyOf(g) \notin keys
    THEN << [sector |-> g.sector, layer |-> g.layer,
             component |-> g.component, status |-> g.status0 + 0] >>
    ELSE LET m == SelectSeq(bw, LAMBDA b : KeyOf(b) = KeyOf(g))
         IN  [k \in 1..Len(m) |->
                 [sector |-> g.sector, layer |-> g.layer,
                  component |-> g.component,
                  status |-> g.status0 + m[k].status]]

\* keys that more than one row of bw carries
RepeatedKeys(bw) ==
    {KeyOf(bw[k]) : k \in {k \in 1..Len(bw) :
                              \E o \in 1..Len(bw) : o # k /\ KeyOf(bw[o]) = KeyOf(bw[k])}}

\* concatenation of the joined rows of grid[lo..Len(grid)]; multi is the set
\* of indices >= lo that are joined to more than one row
RECURSIVE ConcatFrom(_, _, _, _, _)
ConcatFrom(grid, bw, keys, lo, multi) ==
    IF multi = {}
    THEN [j \in 1..(Len(grid) - lo + 1) |-> LeftJoinRow(grid[lo + j - 1], bw, keys)[1]]
    ELSE LET h == SetMin(multi)
         IN  [j \in 1..(h - lo) |-> LeftJoinRow(grid[lo + j - 1], bw, keys)[1]]
             \o LeftJoinRow(grid[h], bw, keys)
             \o ConcatFrom(grid, bw, keys, h + 1, multi \ {h})

make_grid_merge(grid, bw) ==
    LET keys  == {KeyOf(bw[k]) : k \in 1..Len(bw)}
        rep   == RepeatedKeys(bw)
        multi == IF rep = {} THEN {}
                 ELSE {i \in 1..Len(grid) : KeyOf(grid[i]) \in rep}
    IN  ConcatFrom(grid, bw, keys, 1, multi)

(***************************************************************************)
(* Grid stage of GetTable.main                                             *)
(***************************************************************************)
\* rows a BW_total.dat can hold: in-range wires of GetStatus and, since the
\* table is read back from disk without validation, one out-of-range wire
GlobalRows ==
    { [SuperLayer |-> 1, Sector |-> 1, Layer |-> 1, Wire |-> 9],
      [SuperLayer |-> 1, Sector |-> 1, Layer |-> 1, Wire |-> 10],
      [SuperLayer |-> 2, Sector |-> 3, Layer |-> 1, Wire |-> 8],
      [SuperLayer |-> 2, Sector |-> 3, Layer |-> 2, Wire |-> 8],
      [SuperLayer |-> 6, Sector |-> 6, Layer |-> 6, Wire |-> 105],
      [SuperLayer |-> 6, Sector |-> 6, Layer |-> 6, Wire |-> 113] }

GlobalTables ==
    UNION { [1..n -> GlobalRows] : n \in 0..MaxBadRows }

\* full_grid(out_dir) with its default arguments
DenseGrid == full_grid(N_SECTORS, N_LAYERS, N_COMPONENTS)

\* the section-file stage at rest (the grid stage is checked on its own)
TableIdle ==
    /\ csv = [sl \in SUPERLAYERS |-> [sec \in SECTIONS |-> Absent]]
    /\ bw_sl = [sl \in SUPERLAYERS |-> Absent]
    /\ tpc = "idle"
    /\ tsl = 1
    /\ total_rows = 0
    /\ running_sum = 0
    /\ exit_code = -1

InitGrid ==
    /\ gpc = "total"
    /\ df_total \in GlobalTables
    /\ df_ccdb_only = <<>>
    /\ df_grid = <<>>
    /\ merged = <<>>
    /\ TableIdle
    /\ StatusIdle
    /\ ChainIdle
    /\ OutIdle

\* the call of to_ccdb_only_bw in main: the column check, the conversion and
\* the write of BW_only_ccdb.dat
ToCcdbOnly ==
    /\ gpc = "total"
    /\ IF ~(ExpectedColumns \subseteq df_cols)
       THEN \* raise ValueError(f"Expected columns {expected}, got ...")
            /\ gpc' = "failed"
            /\ exit_code' = 1
            /\ err' = [type |-> "ValueError", file |-> 0]
            /\ UNCHANGED <<df_ccdb_only, bw_only_ccdb>>
       ELSE /\ df_ccdb_only' = to_ccdb_only_bw(df_total)
            /\ bw_only_ccdb' = TableFile(df_ccdb_only')
            /\ gpc' = "ccdb"
            /\ UNCHANGED <<exit_code, err>>
    /\ UNCHANGED <<df_total, df_grid, merged>>
    /\ UNCHANGED <<csv, bw_sl, tpc, tsl, total_rows, running_sum>>
    /\ UNCHANGED <<bw_total, df_cols, n_read>>
    /\ UNCHANGED <<statusVars, chainVars>>

MakeGridMerge ==
    /\ gpc = "ccdb"
    /\ df_grid' = DenseGrid
    /\ merged' = make_grid_merge(df_grid', df_ccdb_only)
    /\ gpc' = "grid"
    /\ UNCHANGED <<df_total, df_ccdb_only>>
    /\ UNCHANGED <<tableVars, statusVars, outVars, chainVars>>

NextGrid == ToCcdbOnly \/ MakeGridMerge

SpecGrid == InitGrid /\ [][NextGrid]_vars

(***************************************************************************)
(* Section-file stage of GetTable.main                                     *)
(***************************************************************************)
GridIdle ==
    /\ gpc = "idle"
    /\ df_total = <<>>
    /\ df_ccdb_only = <<>>
    /\ df_grid = <<>>
    /\ merged = <<>>

InitTable ==
    /\ \E layout \in [SUPERLAYERS -> LayoutNames] :
           csv = [sl \in SUPERLAYERS |-> SectionLayout(sl, layout[sl])]
    /\ bw_sl = [sl \in SUPERLAYERS |-> Absent]
    /\ tpc = "superlayers"
    /\ tsl = 1
    /\ total_rows = 0
    /\ running_sum = 0
    /\ exit_code = -1
    /\ GridIdle
    /\ StatusIdle
    /\ ChainIdle
    /\ OutIdle

\* main's except clause: print the error, return 1
MainFails ==
    /\ tpc' = "failed"
    /\ exit_code' = 1

\* one iteration of the loop over SUPERLAYERS in build_superlayer_outputs
BuildSuperlayer ==
    /\ tpc = "superlayers"
    /\ tsl \in SUPERLAYERS
    /\ LET dfs == read_section_files(csv[tsl])
       IN  IF dfs = <<>>
           THEN \* pd.concat([]) raises ValueError: No objects to concatenate
                /\ MainFails
                /\ UNCHANGED <<bw_sl, tsl, total_rows, running_sum>>
           ELSE IF ~WireCastable(Concat(dfs))
           THEN \* astype("Int64") raises TypeError
                /\ MainFails
                /\ UNCHANGED <<bw_sl, tsl, total_rows, running_sum>>
           ELSE LET result == normalize_wire_column(Concat(dfs))
                IN  /\ bw_sl' = [bw_sl EXCEPT ![tsl] = TableFile(result)]
                    /\ total_rows' = total_rows + Len(result)
                    /\ running_sum' = running_sum + SumRows(dfs)
                    /\ tsl' = tsl + 1
                    /\ tpc' = IF tsl = 6 THEN "total" ELSE "superlayers"
                    /\ UNCHANGED exit_code
    /\ UNCHANGED csv
    /\ UNCHANGED <<gridVars, statusVars, outVars, chainVars>>

NextTable == BuildSuperlayer

SpecTable == InitTable /\ [][NextTable]_vars

(***************************************************************************)
(* to_ccdb_only_bw on global tables of any row order and column set        *)
(***************************************************************************)
\* Bound: the number of rows of the global tables considered
MaxCcdbRows == 4

\* the k-th of 144 rows: all (Super Layer, Layer) pairs, two sectors, two wires
TotalRow(k) ==
    [SuperLayer |-> (k % 6) + 1, Layer |-> ((k \div 6) % 6) + 1,
     Sector |-> IF (k \div 36) % 2 = 0 THEN 1 ELSE 6,
     Wire |-> IF (k \div 72) % 2 = 0 THEN 8 ELSE 105]

\* tables that walk through the rows from a start with a stride: ascending,
\* descending, mixed, and (stride 0) the same row repeated
Strides == {0, 1, 7, 36, 71, 143}
TotalTable(start, stride, n) ==
    [i \in 1..n |-> TotalRow((start + (i - 1) * stride) % 144)]

\* column sets of a table read back from disk: the expected ones, with one
\* more, or with one missing
ColumnSets ==
    {ExpectedColumns, ExpectedColumns \cup {"Extra"}}
        \cup {ExpectedColumns \ {c} : c \in ExpectedColumns}

\* the rows of a table restricted to its columns
WithColumns(table, cols) ==
    [i \in 1..Len(table) |->
        [c \in cols |-> IF c \in DOMAIN table[i] THEN table[i][c] ELSE 0]]

InitCcdb ==
    /\ gpc = "total"
    /\ df_cols \in ColumnSets
    /\ \E start \in 0..143 : \E stride \in Strides : \E n \in 0..MaxCcdbRows :
          df_total = WithColumns(TotalTable(start, stride, n), df_cols)
    /\ df_ccdb_only = <<>>
    /\ df_grid = <<>>
    /\ merged = <<>>
    /\ bw_total = TableFile(df_total)
    /\ bw_only_ccdb = Absent
    /\ n_read = 6
    /\ err = NoError
    /\ TableIdle
    /\ StatusIdle
    /\ ChainIdle

SpecCcdb == InitCcdb /\ [][ToCcdbOnly]_vars

(***************************************************************************)
(* build_total and the rest of GetTable.main                               *)
(***************************************************************************)
\* missing files skipped, as read_section_files skips them
MissingFiles_Skipped(dir) == {}

\* the files of per_sl_files for which f.exists() is false
MissingFiles(dir) == {sl \in SUPERLAYERS : dir[sl] = Absent}

\* dfs = [pd.read_csv(f) for f in per_sl_files]
ReadTables(dir) == [sl \in SUPERLAYERS |-> dir[sl].rows]

\* what build_superlayer_outputs writes to BW_SL{sl}.dat in the runs considered
SuperlayerTables(sl) ==
    IF sl <= 3
    THEN { TableFile(normalize_wire_column(SectionRows(sl, 1))),
           TableFile(normalize_wire_column(SectionRows(sl, 2) \o SectionRows(sl, 5))) }
    ELSE { TableFile(normalize_wire_column(SectionRows(sl, 2))) }

\* a BW_total.dat left by an earlier run
StaleTotal == TableFile(normalize_wire_column(SectionRows(3, 6)))

\* main after build_superlayer_outputs; a BW_SL file may have been removed
\* since it was written
InitTotal ==
    /\ tpc = "total"
    /\ \E removed \in SUBSET SUPERLAYERS :
       \E pick \in [1..3 -> 1..2] :
          bw_sl = [sl \in SUPERLAYERS |->
                      IF sl \in removed THEN Absent
                      ELSE IF sl <= 3 /\ pick[sl] = 1
                      THEN TableFile(normalize_wire_column(SectionRows(sl, 1)))
                      ELSE CHOOSE t \in SuperlayerTables(sl) :
                               Len(t.rows) > 1]
    /\ bw_total \in {Absent, StaleTotal}
    /\ csv = [sl \in SUPERLAYERS |-> [sec \in SECTIONS |-> Absent]]
    /\ tsl = 7
    /\ total_rows = 0
    /\ running_sum = 0
    /\ exit_code = -1
    /\ bw_only_ccdb = Absent
    /\ df_cols = ExpectedColumns
    /\ n_read = 0
    /\ err = NoError
    /\ GridIdle
    /\ StatusIdle
    /\ ChainIdle

BuildTotal ==
    /\ tpc = "total"
    /\ IF MissingFiles(bw_sl) # {}
       THEN \* raise FileNotFoundError(f"Expected file not found: {f}")
            /\ MainFails
            /\ err' = [type |-> "FileNotFoundError",
                       file |-> SetMin(MissingFiles(bw_sl))]
            /\ UNCHANGED <<gridVars, bw_total, n_read>>
       ELSE /\ n_read' = Len(ReadTables(bw_sl))
            /\ df_total' = Concat(ReadTables(bw_sl))
            /\ bw_total' = TableFile(df_total')
            /\ gpc' = "total"
            /\ tpc' = "ccdb"
            /\ UNCHANGED <<df_ccdb_only, df_grid, merged, exit_code, err>>
    /\ UNCHANGED <<csv, bw_sl, tsl, total_rows, running_sum>>
    /\ UNCHANGED <<bw_only_ccdb, df_cols>>
    /\ UNCHANGED <<statusVars, chainVars>>

NextTotal == BuildTotal \/ ToCcdbOnly \/ MakeGridMerge

SpecTotal == InitTotal /\ [][NextTotal]_vars

(***************************************************************************)
(* Inputs of GetStatus.py: the histograms of the ROOT file and the result  *)
(* of histSum.Fit                                                          *)
(***************************************************************************)
Const(v) == [i \in 1..NBins |-> v]

\* a level profile with the contents v1, v2 in the bins w, w + 1
WithPair(base, w, v1, v2) ==
    [i \in 1..NBins |-> IF i = w THEN v1 ELSE IF i = w + 1 THEN v2 ELSE base]

FlatFit(p0) ==
    [g1 |-> <<p0, 0, 0, 0>>, g2 |-> <<p0, 0, 0, 0>>, g3 |-> <<p0, 0, 0, 0>>,
     g4 |-> <<p0, 0, 0>>, den |-> 1]

\* a fit of scale 10 * s whose segments differ and whose g1 turns negative
ShapedFit(s) ==
    [g1 |-> <<10 * s, s \div 2, s \div 2, -(s \div 2)>>,
     g2 |-> <<11 * s, 0, 0, 0>>, g3 |-> <<12 * s, 0, 0, 0>>,
     g4 |-> <<5 * s, 0, 375 * s>>, den |-> 1]

\* the (iSL, sec) positions of the loops that are followed
Units == {<<0, 0>>, <<1, 4>>, <<2, 2>>, <<3, 5>>, <<4, 1>>, <<5, 3>>}
BinOffsets == {-1, 0}

StatusStart ==
    /\ \E u \in Units : iSL = u[1] /\ isec = u[2]
    /\ xoff \in BinOffsets
    /\ g_sec = NoFit /\ histDiff = <<>>
    /\ g_lay = <<>> /\ histDiffSecLay = <<>>
    /\ BWsec = Absent
    /\ GridIdle /\ TableIdle /\ OutIdle /\ ChainIdle

\* sector profiles: level 100 with a pair of bins moved by d around
\* the edges of the filtered zone and around x = 50
SectorDevBins == {13, 14, 15, 16, 49, 50, 51, 105, 106, 107, 108}
SectorDevs == {10, 14, 15, 17, 18, 21, 30, 43}
SectorProfiles ==
    {WithPair(100, w, 100 + d, 100 - d) : w \in SectorDevBins, d \in SectorDevs}
        \cup {Const(0)}
SectorSumFits == {FlatFit(200), FlatFit(220), ShapedFit(20)}
SumProfiles(level) == {Const(level), Const(-1)}

InitSector ==
    /\ spc = "sector"
    /\ StatusStart
    /\ gsum \in SectorSumFits
    /\ \E raw \in SumProfiles(200) : histSum = ForceMinContent(raw)
    /\ hist \in SectorProfiles
    /\ layers = [l \in 1..6 |-> Const(0)]

SpecSector == InitSector /\ [][SectorStage]_vars

\* layer profiles: level 10 with, in the bins w and w + 1 of layer l, the
\* contents LayerShapes[l]
LayerDevBins == {3, 4, 10, 11, 12, 13, 74, 75, 87, 88, 89, 90, 98, 99, 100,
                 104, 105, 106}
LayerShapes == << <<10, 10>>, <<0, 10>>, <<20, 10>>, <<60, 10>>, <<30, 30>>,
                  <<6, 5>> >>
LayerProfiles(w) ==
    [l \in 1..6 |-> WithPair(10, w, LayerShapes[l][1], LayerShapes[l][2])]

\* (sum fit, sum profile, sector profile)
LayerScenarios ==
    { <<FlatFit(20), Const(20), Const(10)>>,
      <<ShapedFit(2), Const(20), Const(10)>>,
      <<FlatFit(20), Const(20), Const(0)>>,
      <<FlatFit(20), Const(20), Const(-1)>>,
      <<FlatFit(20), Const(-1), Const(10)>> }

InitLayer ==
    /\ spc = "sector"
    /\ StatusStart
    /\ \E sc \in LayerScenarios :
          /\ gsum = sc[1]
          /\ histSum = ForceMinContent(sc[2])
          /\ hist = sc[3]
    /\ \E w \in LayerDevBins : layers = LayerProfiles(w)

NextLayer == SectorStage \/ LayerStage \/ ExportSector

SpecLayer == InitLayer /\ [][NextLayer]_vars

(***************************************************************************)
(* A run of GetStatus.py into a directory that an earlier run has used     *)
(***************************************************************************)
\* a BWsec{sec+1}.csv left by an earlier run
StaleCsv ==
    TableFile(<< [SuperLayer |-> iSL + 1, Sector |-> isec + 1, Layer |-> 1,
                  Wire2 |-> 2 * 50] >>)

RunDevBins == {3, 12}

InitRun ==
    /\ spc = "cleanup"
    /\ \E u \in Units : iSL = u[1] /\ isec = u[2]
    /\ xoff \in BinOffsets
    /\ g_sec = NoFit /\ histDiff = <<>>
    /\ g_lay = <<>> /\ histDiffSecLay = <<>>
    /\ BWsec \in {Absent, StaleCsv}
    /\ \E sc \in LayerScenarios :
          /\ gsum = sc[1]
          /\ histSum = ForceMinContent(sc[2])
          /\ hist = sc[3]
    /\ \E w \in RunDevBins : layers = LayerProfiles(w)
    /\ GridIdle /\ TableIdle /\ OutIdle /\ ChainIdle

\* lines 115-125 for the file followed: os.remove succeeds, or raises an
\* OSError that is printed
Cleanup ==
    /\ spc = "cleanup"
    /\ IF BWsec = Absent
       THEN UNCHANGED BWsec
       ELSE \E removed \in BOOLEAN :
               BWsec' = IF removed THEN Absent ELSE BWsec
    /\ spc' = "sector"
    /\ UNCHANGED <<iSL, isec, xoff, gsum, histSum, hist, layers, g_sec,
                   histDiff, g_lay, histDiffSecLay>>
    /\ UNCHANGED <<gridVars, tableVars, outVars, chainVars>>

NextRun == Cleanup \/ SectorStage \/ LayerStage \/ ExportSector

SpecRun == InitRun /\ [][NextRun]_vars

(***************************************************************************)
(* Claims about the dense grid (full_grid, make_grid_merge)                *)
(***************************************************************************)
GridKeys == (1..N_SECTORS) \X (1..N_LAYERS) \X (1..N_COMPONENTS)

KeysOf(table) == {KeyOf(table[i]) : i \in 1..Len(table)}

\* every key of GridKeys is the key of exactly one row of table
EachKeyOnce(table) ==
    /\ Len(table) = N_SECTORS * N_LAYERS * N_COMPONENTS
    /\ KeysOf(table) = GridKeys

NoRepeatedKeys(bw) == RepeatedKeys(bw) = {}

StatusRows(table, st) == {i \in 1..Len(table) : table[i].status = st}

\* C1: the grid full_grid(6, 36, 112) builds is the Cartesian product of
\* sector 1..6, layer 1..36 and component 1..112, every key exactly once
\* (24192 rows), and so is the merged grid when the bad-wire table has no
\* repeated key.
C1_GridIsCartesianProduct ==
    gpc = "grid" =>
        /\ EachKeyOnce(df_grid)
        /\ NoRepeatedKeys(df_ccdb_only) => EachKeyOnce(merged)

\* C2: make_grid_merge yields exactly 6 x 36 x 112 = 24192 rows whatever
\* bad-wire rows are supplied, and every row's status is 0 or 112.
C2_MergeRowCountAndStatus ==
    gpc = "grid" =>
        /\ Len(merged) = N_SECTORS * N_LAYERS * N_COMPONENTS
        /\ \A i \in 1..Len(merged) : merged[i].status \in {0, STATUS_BAD}

\* C3: every grid key present in the CCDB-only table is in the merged grid
\* with status 112, every grid key absent from it is in the merged grid with
\* status 0, and the number of status-112 rows is the number of distinct
\* bad-wire keys.
C3_MergeRoundTrip ==
    gpc = "grid" =>
        LET bad  == KeysOf(df_ccdb_only)
            seen == {<<KeyOf(merged[i]), merged[i].status>> : i \in 1..Len(merged)}
        IN  /\ \A k \in GridKeys :
                   IF k \in bad THEN <<k, STATUS_BAD>> \in seen
                                ELSE <<k, 0>> \in seen
            /\ Cardinality(StatusRows(merged, STATUS_BAD))
                   = Cardinality(bad \cap GridKeys)

(***************************************************************************)
(* Claims about the section files (build_superlayer_outputs)               *)
(***************************************************************************)
\* the rows of the section files of superlayer sl that are present
PresentRows(sl) ==
    Concat([k \in 1..Len(read_section_files(csv[sl])) |->
               normalize_wire_column(read_section_files(csv[sl])[k])])

OnlyAbsentOrWhole ==
    \A sl \in SUPERLAYERS : \A sec \in SECTIONS :
        \/ csv[sl][sec] = Absent
        \/ IsTable(csv[sl][sec]) /\ WireCastable(csv[sl][sec].rows)

\* C10: whatever subset of a superlayer's six section files is absent (up to
\* all six), build_superlayer_outputs skips the absent files, writes
\* BW_SL{n}.dat holding exactly the rows of the files present, and goes on to
\* the next superlayer without raising.
C10_MissingSectionsSkipped ==
    OnlyAbsentOrWhole =>
        /\ tpc # "failed"
        /\ \A sl \in SUPERLAYERS : sl < tsl => bw_sl[sl] = TableFile(PresentRows(sl))

(***************************************************************************)
(* Claims about the fit subranges and the normalisation (GetStatus.py)     *)
(***************************************************************************)
Subranges(sl) ==
    << <<startG1fit[sl], endG1fit[sl]>>, <<startG2fit[sl], endG2fit[sl]>>,
       <<startG3fit[sl], endG3fit[sl]>>, <<startG4fit[sl], maxWireFit>> >>

SubrangesOf(sl, x) ==
    {k \in 1..4 : Subranges(sl)[k][1] <= x /\ x <= Subranges(sl)[k][2]}

\* C4 as stated: for the superlayer that is processed the boundaries of the four subranges
\* increase strictly from one to the next and every wire index of
\* 0..maxWireFit lies in exactly one subrange.
C4_SubrangesPartition ==
    LET sl == iSL + 1
    IN  spc # "idle" =>
        /\ \A k \in 1..4 : Subranges(sl)[k][1] < Subranges(sl)[k][2]
        /\ \A k \in 1..3 : Subranges(sl)[k][2] < Subranges(sl)[k + 1][1]
        /\ \A x \in 0..maxWireFit : Cardinality(SubrangesOf(sl, x)) = 1

\* C4 amended: for the superlayer that is processed (and so for each of the
\* six) every subrange is non-empty, starts and ends increase strictly from
\* one subrange to the next, the next subrange starts no later than the
\* previous one ends, and every wire index from startG1 to maxWireFit lies in
\* at least one subrange.
C4_SubrangesCover ==
    LET sl == iSL + 1
    IN  spc # "idle" =>
        /\ \A k \in 1..4 : Subranges(sl)[k][1] < Subranges(sl)[k][2]
        /\ \A k \in 1..3 : /\ Subranges(sl)[k][1] < Subranges(sl)[k + 1][1]
                           /\ Subranges(sl)[k][2] < Subranges(sl)[k + 1][2]
                           /\ Subranges(sl)[k + 1][1] <= Subranges(sl)[k][2]
        /\ \A x \in startG1fit[sl]..maxWireFit : SubrangesOf(sl, x) # {}

\* superlayer 6 has been filtered: its subranges start at 5, and wire 14 lies
\* in both the first and the second
C4_Witness ==
    /\ spc = "layer" /\ iSL = 5 /\ histDiff # <<>>
    /\ SubrangesOf(6, 4) = {}
    /\ SubrangesOf(6, 14) = {1, 2}

TrustedIntegral(h) == Integral(h, startG1fit[iSL + 1], maxWireFit)

\* C5: when the trusted-range integral of the summed profile is <= 0 every
\* parameter of the sector fit is 0; when that of the sector profile is <= 0
\* every parameter of the six layer fits is 0; an all-zero sector fit gives
\* six all-zero layer fits; and the pass does not stop on an error.
C5_DegenerateNormIsZero ==
    /\ spc # "crashed"
    /\ (spc \in {"layer", "export", "done"} /\ TrustedIntegral(histSum) <= 0)
           => AllZero(g_sec)
    /\ spc \in {"export", "done"} =>
           /\ TrustedIntegral(hist) <= 0 => \A l \in 1..6 : AllZero(g_lay[l])
           /\ AllZero(g_sec) => \A l \in 1..6 : AllZero(g_lay[l])

\* the summed profile is degenerate, the sector profile is not: the sector
\* fit and the six layer fits are all zero although the layer norm is not
C5_Witness ==
    /\ spc = "done"
    /\ TrustedIntegral(histSum) <= 0
    /\ TrustedIntegral(hist) > 0
    /\ \E l \in 1..6 : TrustedIntegral(layers[l]) > 0
    /\ ~AllZero(gsum)
    /\ AllZero(g_sec)
    /\ \A l \in 1..6 : AllZero(g_lay[l])

(***************************************************************************)
(* Claims about the sector-level filter                                    *)
(***************************************************************************)
RLe(a, b) == a.n * b.d <= b.n * a.d

SectorX(iBin) == GetBinCenter(xoff, iBin)
SectorFit(iBin) == SectorFitVal(g_sec, iSL, SectorX(iBin))

\* the decision that the claim describes for a bin, given whether its value
\* is inside the accept band
SectorDecisionIs(iBin, inBand) ==
    /\ (15 <= SectorX(iBin) /\ SectorX(iBin) < 107 /\ inBand)
           => histDiff[iBin] = hist[iBin]
    /\ (15 <= SectorX(iBin) /\ SectorX(iBin) < 107 /\ ~inBand)
           => histDiff[iBin] = 0
    /\ (SectorX(iBin) < 15 \/ SectorX(iBin) >= 107)
           => histDiff[iBin] = hist[iBin]

\* at x = 50 and a positive fit value f: 1.1 f is kept, 1.3 f is dropped
SectorExamples(iBin) ==
    LET f == SectorFit(iBin)
        y == hist[iBin]
    IN  (SectorX(iBin) = 50 /\ f.n > 0) =>
            /\ 10 * y * f.d = 11 * f.n => histDiff[iBin] = y
            /\ 10 * y * f.d = 13 * f.n => histDiff[iBin] = 0

\* C6 as stated: a bin with x in [15, 107) is kept iff
\* minBorder * fit <= value <= maxBorder * fit (the closed band); 1.1 f is
\* kept and 1.3 f dropped at x = 50; a bin with x < 15 or x >= 107 is kept.
C6_SectorClosedBand ==
    spc = "layer" =>
        \A iBin \in 1..NBins :
            /\ SectorDecisionIs(iBin,
                   /\ RLe(RMul(minBorder, SectorFit(iBin)), Int2R(hist[iBin]))
                   /\ RLe(Int2R(hist[iBin]), RMul(maxBorder, SectorFit(iBin))))
            /\ SectorExamples(iBin)

\* C6 amended: a bin with x in [15, 107) is kept iff
\* minBorder * fit < value < maxBorder * fit (a value on the edge of the band
\* is dropped); 1.1 f is kept and 1.3 f dropped at x = 50; a bin with x < 15
\* or x >= 107 is kept whatever its value and the fit.
C6_SectorOpenBand ==
    spc = "layer" =>
        \A iBin \in 1..NBins :
            /\ SectorDecisionIs(iBin,
                   /\ RLt(RMul(minBorder, SectorFit(iBin)), Int2R(hist[iBin]))
                   /\ RLt(Int2R(hist[iBin]), RMul(maxBorder, SectorFit(iBin))))
            /\ SectorExamples(iBin)

\* the bin at x = 50 holds 1.1 f and is kept, and a bin of the edge zone is
\* kept although its value is above the band
C6_Witness ==
    /\ spc = "layer"
    /\ \E iBin \in 1..NBins :
          /\ SectorX(iBin) = 50
          /\ SectorFit(iBin).n > 0
          /\ 10 * hist[iBin] * SectorFit(iBin).d = 11 * SectorFit(iBin).n
          /\ histDiff[iBin] = hist[iBin]
    /\ \E iBin \in 1..NBins :
          /\ SectorX(iBin) >= 107
          /\ ~RLt(Int2R(hist[iBin]), RMul(maxBorder, SectorFit(iBin)))
          /\ histDiff[iBin] = hist[iBin]

(***************************************************************************)
(* Claims about the layer-level filter and the export                      *)
(***************************************************************************)
Filtered == spc \in {"export", "done"}

LayerX(iBin) == GetBinCenter(xoff, iBin)

\* the accept / reject decision of bin iBin of layer l and its outcome
LayerAccepts(l, iBin) ==
    LayerKeep(iBin, layers[l][iBin], LayerFitVal(g_lay[l], iSL, LayerX(iBin)))

LayerDecision(l, iBin) == IF LayerAccepts(l, iBin) THEN layers[l][iBin] ELSE 0

\* C7 as stated: in the regime 75 <= bin < 100 a bin is kept when its value
\* lies in [minBorderLay * fit, 2 * maxBorderLay * fit] or when bin > 98,
\* whatever the value and the fit; stated for the bins 89..99, which the
\* spike suppression cannot zero afterwards.
C7_Regime75IndexKeeps ==
    Filtered =>
        \A l \in 1..6 : \A iBin \in 89..99 :
            LET y == Int2R(layers[l][iBin])
                f == LayerFitVal(g_lay[l], iSL, LayerX(iBin))
            IN  (\/ /\ RLe(RMul(minBorderLay, f), y)
                    /\ RLe(y, RMul(RMul(Int2R(2), maxBorderLay), f))
                 \/ iBin > 98)
                => histDiffSecLay[l][iBin] = layers[l][iBin]

\* C8 as stated: after the layer loop every bin with index <= 12 or >= 90
\* holds the value that the accept / reject decision gave it.
C8_SpikeOutside12To90 ==
    Filtered =>
        \A l \in 1..6 : \A iBin \in 1..NBins :
            (iBin <= 12 \/ iBin >= 90)
                => histDiffSecLay[l][iBin] = LayerDecision(l, iBin)

\* C8 amended: after the layer loop every bin with index <= 11 or >= 90
\* holds the value that the accept / reject decision gave it (the suppression
\* runs at the bins 13..89 and zeroes the bin before, so bin 12 can be
\* zeroed).
C8_SpikeOutside11To90 ==
    Filtered =>
        \A l \in 1..6 : \A iBin \in 1..NBins :
            (iBin <= 11 \/ iBin >= 90)
                => histDiffSecLay[l][iBin] = LayerDecision(l, iBin)

\* the suppression has zeroed an accepted bin next to the range (bin 88,
\* from bin 89) while the accepted spike of another pass in bin 89 stands
C8_Witness ==
    /\ Filtered
    /\ \E l \in 1..6 :
          /\ LayerDecision(l, 88) > 1
          /\ histDiffSecLay[l][88] = 0
          /\ histDiffSecLay[l][89] = LayerDecision(l, 89)
          /\ \A iBin \in 1..11 : histDiffSecLay[l][iBin] = LayerDecision(l, iBin)

\* the records that the claim describes
BadBins ==
    {p \in (1..6) \X (5..NBins) :
        /\ histDiffSecLay[p[1]][p[2]] <= 1
        /\ 5 < LayerX(p[2]) /\ LayerX(p[2]) < 106}

RecordOf(p) ==
    [SuperLayer |-> iSL + 1, Sector |-> isec + 1, Layer |-> p[1],
     Wire2 |-> 2 * LayerX(p[2])]

\* C9: the records written are exactly those of the bins 5..N of the six
\* filtered layer profiles with value <= 1 and 5 < centre < 106, once each;
\* every such bin that was rejected or zeroed by the suppression has its
\* record; superlayer, sector and layer of a record are in 1..6; and the
\* file is written iff there is at least one record.
C9_RecordsOfBadBins ==
    spc = "done" =>
        LET records == {RecordOf(p) : p \in BadBins}
        IN  /\ {BWsec.rows[i] : i \in 1..Len(BWsec.rows)} = records
            /\ Len(BWsec.rows) = Cardinality(BadBins)
            /\ \A l \in 1..6 : \A iBin \in 5..NBins :
                   (/\ 5 < LayerX(iBin) /\ LayerX(iBin) < 106
                    /\ \/ ~LayerAccepts(l, iBin)
                       \/ histDiffSecLay[l][iBin] # LayerDecision(l, iBin))
                   => RecordOf(<<l, iBin>>) \in records
            /\ \A r \in records :
                   r.SuperLayer \in 1..6 /\ r.Sector \in 1..6 /\ r.Layer \in 1..6
            /\ IsTable(BWsec) <=> BadBins # {}

\* a file with the record of a bin that the suppression zeroed and none for
\* the accepted bin at centre 105
C9_Witness ==
    /\ spc = "done"
    /\ IsTable(BWsec)
    /\ \E l \in 1..6 : \E iBin \in 13..88 :
          /\ LayerDecision(l, iBin) > 1
          /\ histDiffSecLay[l][iBin] = 0
          /\ \E i \in 1..Len(BWsec.rows) :
                 BWsec.rows[i] = RecordOf(<<l, iBin>>)
    /\ \A i \in 1..Len(BWsec.rows) : BWsec.rows[i].Wire2 < 2 * 105

\* no bin is bad: no file is written
C9_WitnessNoFile ==
    /\ spc = "done"
    /\ BadBins = {}
    /\ BWsec = Absent


(***************************************************************************)
(* Claims about build_total and to_ccdb_only_bw                            *)
(***************************************************************************)
\* C11: once build_total has run, if one of BW_SL1..6.dat was missing then
\* main has returned 1 on a FileNotFoundError that names a missing file, no
\* table was read, BW_total.dat is what it was before (absent or the earlier
\* run's), and the CCDB and grid stages have not run; if all six existed then
\* BW_total.dat holds as many rows as the six files together.
C11_MissingFileIsFatal ==
    tpc # "total" =>
        IF \E sl \in SUPERLAYERS : bw_sl[sl] = Absent
        THEN /\ tpc = "failed" /\ exit_code = 1
             /\ err.type = "FileNotFoundError"
             /\ bw_sl[err.file] = Absent
             /\ n_read = 0
             /\ bw_total \in {Absent, StaleTotal}
             /\ df_total = <<>>
             /\ gpc = "idle"
             /\ df_ccdb_only = <<>> /\ bw_only_ccdb = Absent
             /\ df_grid = <<>> /\ merged = <<>>
        ELSE /\ IsTable(bw_total)
             /\ Len(bw_total.rows)
                    = SumRows([sl \in SUPERLAYERS |-> bw_sl[sl].rows])
             /\ bw_total.rows = df_total
             /\ exit_code # 1

\* BW_SL3.dat and BW_SL5.dat are missing: main failed naming BW_SL3.dat and
\* the earlier BW_total.dat is still there
C11_Witness ==
    /\ tpc = "failed" /\ exit_code = 1
    /\ {sl \in SUPERLAYERS : bw_sl[sl] = Absent} = {3, 5}
    /\ err = [type |-> "FileNotFoundError", file |-> 3]
    /\ bw_total = StaleTotal

\* the row that the claim describes for a row of the global table
ExpectedCcdb(t) ==
    [sector |-> t.Sector, layer |-> t.Layer + (t.SuperLayer - 1) * 6,
     component |-> t.Wire, status |-> 112]

Occurrences(table, r) == Cardinality({i \in 1..Len(table) : table[i] = r})

KeyLeq(a, b) ==
    \/ a.sector < b.sector
    \/ a.sector = b.sector /\ a.layer < b.layer
    \/ a.sector = b.sector /\ a.layer = b.layer /\ a.component <= b.component

\* C12: with the four columns present the result has one row per row of the
\* global table, each the row's (sector, Layer + (SuperLayer - 1) * 6, wire,
\* 112), in ascending order of (sector, layer, component), the layer map
\* sends the 36 pairs (SuperLayer, Layer) one-to-one onto 1..36, and the
\* result is written to BW_only_ccdb.dat; with a column absent the call
\* raises ValueError, main returns 1 and BW_only_ccdb.dat is not written.
C12_CcdbOnlyRows ==
    /\ gpc = "ccdb" =>
          /\ ExpectedColumns \subseteq df_cols
          /\ Len(df_ccdb_only) = Len(df_total)
          /\ \A i \in 1..Len(df_total) :
                Occurrences(df_ccdb_only, ExpectedCcdb(df_total[i]))
                    = Occurrences([k \in 1..Len(df_total) |->
                                      ExpectedCcdb(df_total[k])],
                                  ExpectedCcdb(df_total[i]))
          /\ \A i \in 1..Len(df_ccdb_only) : df_ccdb_only[i].status = 112
          /\ \A i \in 1..(Len(df_ccdb_only) - 1) :
                KeyLeq(df_ccdb_only[i], df_ccdb_only[i + 1])
          /\ bw_only_ccdb = TableFile(df_ccdb_only)
    /\ gpc # "total" /\ ~(ExpectedColumns \subseteq df_cols) =>
          /\ gpc = "failed" /\ exit_code = 1
          /\ err.type = "ValueError"
          /\ df_ccdb_only = <<>> /\ bw_only_ccdb = Absent
    /\ Cardinality({CcdbRow([SuperLayer |-> p[1], Layer |-> p[2],
                             Sector |-> 1, Wire |-> 1]).layer :
                        p \in (1..6) \X (1..6)}) = 36
    /\ \A p \in (1..6) \X (1..6) :
          CcdbRow([SuperLayer |-> p[1], Layer |-> p[2],
                   Sector |-> 1, Wire |-> 1]).layer \in 1..36

\* a table of three rows in descending order, with an extra column, converted
C12_Witness ==
    /\ gpc = "ccdb"
    /\ "Extra" \in df_cols
    /\ Len(df_total) = 3
    /\ \A i \in 1..2 : /\ ~KeyLeq(ExpectedCcdb(df_total[i]),
                                  ExpectedCcdb(df_total[i + 1]))
    /\ Len(df_ccdb_only) = 3
    /\ df_ccdb_only[1] = ExpectedCcdb(df_total[3])


(***************************************************************************)
(* Claims about the order of the layer-level passes                        *)
(***************************************************************************)
\* the accept / reject pass over the whole profile
DecisionPass(h, fs, sl, xo) ==
    [iBin \in 1..Len(h) |->
        IF LayerKeep(iBin, h[iBin], LayerFitVal(fs, sl, GetBinCenter(xo, iBin)))
        THEN h[iBin] ELSE 0]

\* the suppression at bin iBin of an already filtered profile, with the fit
\* values of the bin and of the two bins before it
SuppressAt(hd, fs, sl, xo, iBin) ==
    IF SpikeCond(hd[iBin], hd[iBin - 1], hd[iBin - 2],
                 LayerFitVal(fs, sl, GetBinCenter(xo, iBin)),
                 LayerFitVal(fs, sl, GetBinCenter(xo, iBin - 1)),
                 LayerFitVal(fs, sl, GetBinCenter(xo, iBin - 2))) = "yes"
    THEN [hd EXCEPT ![iBin - 1] = 0]
    ELSE hd

\* the suppression at the bins lo..hi in ascending order
RECURSIVE SuppressionPass(_, _, _, _, _, _)
SuppressionPass(hd, fs, sl, xo, lo, hi) ==
    IF lo > hi THEN hd
    ELSE IF lo = hi THEN SuppressAt(hd, fs, sl, xo, lo)
    ELSE LET mid == (lo + hi) \div 2
             half == SuppressionPass(hd, fs, sl, xo, lo, mid)
         IN  IF Len(half) = 0 THEN half
             ELSE SuppressionPass(half, fs, sl, xo, mid + 1, hi)

\* (the first pass is taken as a sequence so that it is evaluated once)
TwoPassFilter(h, fs, sl, xo) ==
    SuppressionPass(SubSeq(DecisionPass(h, fs, sl, xo), 1, Len(h)),
                    fs, sl, xo, 13, 89)

\* C13: the filtered profile that the single loop leaves for each of the six
\* layers is the one obtained by the accept / reject pass over the whole
\* profile followed by the suppression at the bins 13..89 on the filtered
\* values.
C13_SingleLoopIsTwoPasses ==
    spc = "export" =>
        \A l \in 1..6 :
            histDiffSecLay[l] = TwoPassFilter(layers[l], g_lay[l], iSL, xoff)

\* a layer in which the suppression has zeroed an accepted bin
C13_Witness ==
    /\ spc = "export"
    /\ \E l \in 1..6 :
          /\ histDiffSecLay[l] # DecisionPass(layers[l], g_lay[l], iSL, xoff)
          /\ histDiffSecLay[l] = TwoPassFilter(layers[l], g_lay[l], iSL, xoff)


(***************************************************************************)
(* Claims about the filtered profiles and about divisions by zero          *)
(***************************************************************************)
\* C14: no step writes to the sector profile or to the layer profiles that
\* the filters read, and after a step every bin of the sector-level filtered
\* profile holds 0 or the sector profile's value at that bin, and every bin
\* of each layer-level filtered profile holds 0 or the layer profile's value.
C14_FilteredIsZeroOrObserved ==
    [][ /\ hist' = hist
        /\ layers' = layers
        /\ spc' \in {"layer", "export", "done"} =>
              \A iBin \in 1..NBins : histDiff'[iBin] \in {0, hist'[iBin]}
        /\ spc' \in {"export", "done"} =>
              \A l \in 1..6 : \A iBin \in 1..NBins :
                  histDiffSecLay'[l][iBin] \in {0, layers'[l][iBin]}
      ]_vars

\* both filters have run: each has dropped a non-zero bin and kept another,
\* and the profiles they read are still non-zero where they dropped
C14_Witness ==
    /\ spc = "export"
    /\ \E a, b \in 1..NBins :
          /\ hist[a] # 0 /\ histDiff[a] = 0
          /\ hist[b] # 0 /\ histDiff[b] = hist[b]
    /\ \E l \in 1..6 : \E a, b \in 1..NBins :
          /\ layers[l][a] # 0 /\ histDiffSecLay[l][a] = 0
          /\ layers[l][b] # 0 /\ histDiffSecLay[l][b] = layers[l][b]

\* C17: the layer loop never stops on a division by zero, and wherever a bin
\* 11..89 holds an accepted value > 1 (the only values for which the
\* suppression divides) the fit value at that bin is positive.
C17_NoDivisionByZero ==
    /\ spc # "crashed"
    /\ Filtered =>
          \A l \in 1..6 : \A iBin \in 11..89 :
              LayerDecision(l, iBin) > 1
                  => LayerFitVal(g_lay[l], iSL, LayerX(iBin)).n > 0

\* the layer loop has run to its end on an all-zero fit over a profile whose
\* values in 11..89 are all > 1, and on no bin was a value accepted
C17_Witness ==
    /\ spc = "export"
    /\ \E l \in 1..6 :
          /\ AllZero(g_lay[l])
          /\ \A iBin \in 11..89 : layers[l][iBin] > 1
          /\ \A iBin \in 11..89 : histDiffSecLay[l][iBin] = 0


(***************************************************************************)
(* Claims about runs into a used directory                                 *)
(***************************************************************************)
\* C15 as stated: once the cleanup has run no earlier CSV is left while the
\* run works, and after the run the file exists iff the run found a bad wire
\* for the (superlayer, sector), with the records of this run, also when
\* os.remove failed.
C15_NoStaleCsv ==
    /\ spc \in {"sector", "layer", "export"} => BWsec = Absent
    /\ spc = "done" =>
          /\ IsTable(BWsec) <=> BadBins # {}
          /\ {BWsec.rows[i] : i \in 1..Len(BWsec.rows)}
                 = {RecordOf(p) : p \in BadBins}



(***************************************************************************)
(* Run_Chain.py: the three steps over the runs of the input folder         *)
(***************************************************************************)
\* the largest number of *.root files and of */results/ directories
MaxRuns == 2

\* a command line: the script and the run it is given
Command(prog, arg) == [prog |-> prog, arg |-> arg]

\* sorted(...glob(...)): the paths found, in ascending order
RECURSIVE sorted(_)
sorted(paths) ==
    IF paths = {} THEN <<>>
    ELSE LET first == SetMin(paths)
         IN  <<first>> \o sorted(paths \ {first})

\* the commands that subprocess.run executes with check=True
CheckedCommands ==
    {Command(prog, arg) : prog \in {"GetStatus.py", "CreatePDF.py"},
                          arg \in 1..MaxRuns}

\* the script starts: the folder holds some .root files, some results
\* directories, and some of the commands will exit with a non-zero status
InitChain ==
    /\ GridIdle /\ TableIdle /\ OutIdle /\ StatusIdle
    /\ cpc = "step3"
    /\ ci = 1
    /\ root_files \in 0..MaxRuns
    /\ \E dirs \in SUBSET (1..MaxRuns) : results_dirs = sorted(dirs)
    /\ failing \in SUBSET CheckedCommands
    /\ executed = <<>>
    /\ printed = <<>>

\* STEP 3, one iteration: print the command and run it; check=True raises
\* CalledProcessError on a non-zero exit status, which ends the script
GetStatusRun ==
    /\ cpc = "step3"
    /\ ci <= root_files
    /\ LET cmd == Command("GetStatus.py", ci)
       IN  /\ printed' = Append(printed, cmd)
           /\ executed' = Append(executed, cmd)
           /\ IF cmd \in failing
              THEN cpc' = "aborted" /\ ci' = ci
              ELSE cpc' = cpc /\ ci' = ci + 1
    /\ UNCHANGED <<root_files, results_dirs, failing>>
    /\ UNCHANGED <<gridVars, tableVars, statusVars, outVars>>

\* the loop of STEP 3 is over: STEP 4 globs the results directories
Step3Done ==
    /\ cpc = "step3"
    /\ ci > root_files
    /\ cpc' = "step4"
    /\ ci' = 1
    /\ UNCHANGED <<root_files, results_dirs, failing, executed, printed>>
    /\ UNCHANGED <<gridVars, tableVars, statusVars, outVars>>

\* STEP 4, one iteration: the command is built and printed; the body holds
\* no subprocess.run
GetTablePrint ==
    /\ cpc = "step4"
    /\ ci <= Len(results_dirs)
    /\ printed' = Append(printed, Command("GetTable.py", results_dirs[ci]))
    /\ ci' = ci + 1
    /\ UNCHANGED <<cpc, root_files, results_dirs, failing, executed>>
    /\ UNCHANGED <<gridVars, tableVars, statusVars, outVars>>

\* the loop of STEP 4 is over: STEP 5 globs the results directories again
Step4Done ==
    /\ cpc = "step4"
    /\ ci > Len(results_dirs)
    /\ cpc' = "step5"
    /\ ci' = 1
    /\ UNCHANGED <<root_files, results_dirs, failing, executed, printed>>
    /\ UNCHANGED <<gridVars, tableVars, statusVars, outVars>>

\* STEP 5, one iteration: print the command and run it with check=True
CreatePDFRun ==
    /\ cpc = "step5"
    /\ ci <= Len(results_dirs)
    /\ LET cmd == Command("CreatePDF.py", results_dirs[ci])
       IN  /\ printed' = Append(printed, cmd)
           /\ executed' = Append(executed, cmd)
           /\ IF cmd \in failing
              THEN cpc' = "aborted" /\ ci' = ci
              ELSE cpc' = cpc /\ ci' = ci + 1
    /\ UNCHANGED <<root_files, results_dirs, failing>>
    /\ UNCHANGED <<gridVars, tableVars, statusVars, outVars>>

\* the loop of STEP 5 is over: the script ends
Step5Done ==
    /\ cpc = "step5"
    /\ ci > Len(results_dirs)
    /\ cpc' = "done"
    /\ UNCHANGED <<ci, root_files, results_dirs, failing, executed, printed>>
    /\ UNCHANGED <<gridVars, tableVars, statusVars, outVars>>

NextChain ==
    \/ GetStatusRun
    \/ Step3Done
    \/ GetTablePrint
    \/ Step4Done
    \/ CreatePDFRun
    \/ Step5Done

SpecChain == InitChain /\ [][NextChain]_vars


(***************************************************************************)
(* Claims about the chain of steps                                         *)
(***************************************************************************)
\* the positions of `executed` that hold the command
RanAt(cmd) == {i \in 1..Len(executed) : executed[i] = cmd}

\* the rank of a script in the order of the steps
StageOf(prog) ==
    CASE prog = "GetStatus.py" -> 3
      [] prog = "GetTable.py"  -> 4
      [] prog = "CreatePDF.py" -> 5

\* C16 as stated: the commands are executed in the order of the steps;
\* CreatePDF.py is executed on a results directory only after GetTable.py
\* has been executed on it; and when the script has ended, with or without a
\* failing command, GetStatus.py has been executed on every .root file and
\* GetTable.py and CreatePDF.py on every results directory.
C16_ChainRunsAllStages ==
    /\ \A i, j \in 1..Len(executed) :
          i < j => StageOf(executed[i].prog) <= StageOf(executed[j].prog)
    /\ \A i \in {n \in 1..Len(executed) : executed[n].prog = "CreatePDF.py"} :
          \E j \in 1..(i - 1) :
              executed[j] = Command("GetTable.py", executed[i].arg)
    /\ cpc \in {"done", "aborted"} =>
          /\ \A f \in 1..root_files : RanAt(Command("GetStatus.py", f)) # {}
          /\ \A k \in 1..Len(results_dirs) :
                /\ RanAt(Command("GetTable.py", results_dirs[k])) # {}
                /\ RanAt(Command("CreatePDF.py", results_dirs[k])) # {}


=============================================================================
